---------------------------- MODULE Spec2Model ----------------------------
(***************************************************************************)
(* Model of the kubb code generator: the zod parser (sort, parse), the     *)
(* angular plugin (resolvePath, buildStart) and the plugin orchestration    *)
(* that drives it.                                                          *)
(***************************************************************************)
EXTENDS Integers, Sequences, FiniteSets, TLC

VARIABLES
  pc,        \* position of the modelled run
  items,     \* sort(): the argument, a list of sibling schemas or a missing list
  sorted,    \* sort(): the returned list
  tree,      \* parse(): the SchemaTree argument {parent, current, name, siblings}
  options,   \* parse(): the ParserOptions argument
  output,    \* parse(): the returned value (string | undefined)
  plugin,    \* pluginAngular(options): config.root, config.output.path, output.path, group
  call,      \* resolvePath(): the arguments baseName, pathMode, options
  resolved,  \* resolvePath(): the returned path, or the error thrown
  listed,    \* config.plugins: the plugin names in listing order
  pre,       \* the pre-dependencies each plugin declares
  run,       \* the orchestration run: validating, running, configError, failed, done
  phase,     \* each plugin's lifecycle: absent, pending, setup, build, completed, failed
  step,      \* pluginAngular.buildStart(): the statement it has reached
  generator, \* oasGenerator.build(): its state and the files it has built so far
  files,     \* buildStart(): const files
  fileSet    \* the files registered with the file manager

parserVars == <<items, sorted, tree, options, output>>
pathVars == <<plugin, call, resolved>>
buildVars == <<listed, pre, run, phase, step, generator, files, fileSet>>
vars == <<pc, parserVars, pathVars, buildVars>>

(***************************************************************************)
(* JavaScript values.  A value is its type tag and the text a template      *)
(* literal renders for it.                                                  *)
(***************************************************************************)
JsUndef == [t |-> "undefined", s |-> "undefined"]
JsStr(s) == [t |-> "string", s |-> s]
JsNum(s) == [t |-> "number", s |-> s]
JsBool(b) == [t |-> "boolean", s |-> IF b THEN "true" ELSE "false"]
JsObj == [t |-> "object", s |-> "[object Object]"]

\* Boolean(v): the falsy values are undefined, '', 0, NaN and false.
JsTruthy(v) ==
  /\ v.t # "undefined"
  /\ ~(v.t = "string" /\ v.s = "")
  /\ ~(v.t = "number" /\ v.s \in {"0", "NaN"})
  /\ ~(v.t = "boolean" /\ v.s = "false")

\* `${v ?? ''}`
OrEmpty(v) == IF v.t = "undefined" THEN "" ELSE v.s

\* Number(v) rendered by a template literal.
NumberText(v) ==
  CASE v.t = "number" -> v.s
    [] v.t = "boolean" -> (IF v.s = "true" THEN "1" ELSE "0")
    [] v.t = "string" /\ v.s \in {"0", "1", "2", "3"} -> v.s
    [] v.t = "string" /\ v.s = "" -> "0"
    [] OTHER -> "NaN"

(***************************************************************************)
(* The value parse() returns: a string or undefined.                        *)
(***************************************************************************)
Undefined == [def |-> FALSE, s |-> ""]
Str(s) == [def |-> TRUE, s |-> s]

\* Array.prototype.filter(Boolean) keeps the non-empty strings.
Truthy(r) == r.def /\ r.s # ""
FilterBoolean(rs) == SelectSeq(rs, Truthy)

\* Array.prototype.slice(from, to), positions counted from 0, to excluded.
slice(rs, from, to) ==
  LET hi == IF to > Len(rs) THEN Len(rs) ELSE to
  IN [i \in 1..(IF hi > from THEN hi - from ELSE 0) |-> rs[from + i]]

RECURSIVE JoinFrom(_, _, _)
JoinFrom(rs, sep, i) ==
  IF i > Len(rs) THEN ""
  ELSE IF i = Len(rs) THEN rs[i].s
  ELSE rs[i].s \o sep \o JoinFrom(rs, sep, i + 1)

\* Array.prototype.join(sep) over an array of strings.
Join(rs, sep) == JoinFrom(rs, sep, 1)

(***************************************************************************)
(* Schema nodes.  Every node has the same fields; a keyword reads the ones  *)
(* its args carry.                                                          *)
(***************************************************************************)
Missing == [present |-> FALSE, list |-> <<>>]
Some(l) == [present |-> TRUE, list |-> l]

Node(k) ==
  [keyword |-> k,
   hasArgs |-> FALSE,              \* 'args' in current
   args |-> JsUndef,               \* scalar args (default, describe, min, max, matches, name, catchall)
   list |-> Missing,               \* args of union / and; args.items of array / tuple
   enumItems |-> <<>>,             \* args.items of enum: {value, format}
   properties |-> <<>>,            \* args.properties of object, in entry order
   additionalProperties |-> <<>>,  \* args.additionalProperties of object
   flags |-> {},                   \* asConst, strict, unique, offset, local
   format |-> "",                  \* args.format of const; args.type of date / time
   min |-> JsUndef,                \* args.min of array
   max |-> JsUndef,                \* args.max of array
   value |-> JsUndef]              \* args.value of const; args.name of ref

WithArgs(k, v) == [Node(k) EXCEPT !.hasArgs = TRUE, !.args = v]
WithList(k, l) == [Node(k) EXCEPT !.hasArgs = TRUE, !.list = Some(l)]
Ref(n) == [Node("ref") EXCEPT !.hasArgs = TRUE, !.value = n]
Const(item) == [Node("const") EXCEPT !.hasArgs = TRUE, !.value = item.value, !.format = item.format]
Enum(asConst, its) ==
  [Node("enum") EXCEPT !.hasArgs = TRUE, !.enumItems = its,
                       !.flags = IF asConst THEN {"asConst"} ELSE {}]
Object(props, addl, strict) ==
  [Node("object") EXCEPT !.hasArgs = TRUE, !.properties = props,
                         !.additionalProperties = addl,
                         !.flags = IF strict THEN {"strict"} ELSE {}]
ArrayOf(l, mn, mx, unique) ==
  [Node("array") EXCEPT !.hasArgs = TRUE, !.list = Some(l), !.min = mn, !.max = mx,
                        !.flags = IF unique THEN {"unique"} ELSE {}]
DateLike(k, type) == [Node(k) EXCEPT !.hasArgs = TRUE, !.format = type]
DateTime(fl) == [Node("datetime") EXCEPT !.hasArgs = TRUE, !.flags = fl]
Prop(n, schemas) == [name |-> n, schemas |-> schemas]

(***************************************************************************)
(* zodKeywordMapper: one emitter per keyword, or undefined.                 *)
(***************************************************************************)
MapperKeys ==
  {"any", "unknown", "void", "number", "integer", "interface", "object", "string",
   "boolean", "undefined", "nullable", "null", "nullish", "array", "tuple", "enum",
   "union", "const", "datetime", "date", "time", "uuid", "url", "default", "and",
   "describe", "min", "max", "optional", "matches", "email", "firstName", "lastName",
   "password", "phone", "readOnly", "writeOnly", "ref", "blob", "deprecated",
   "example", "schema", "catchall", "name"}

\* The keys the mapper sets to undefined.
UndefinedKeys ==
  {"firstName", "lastName", "password", "phone", "readOnly", "writeOnly",
   "deprecated", "example", "schema", "name"}

\* Mutant of HasEmitter: the guard tests only that the mapper has the key.
HasEmitter_anyKey(k) == k \in MapperKeys

\* zodKeywordMapper[current.keyword] is truthy.
HasEmitter(k) == k \in MapperKeys \ UndefinedKeys

Bound(prefix, v) == IF v.t # "undefined" THEN prefix \o v.s \o ")" ELSE ""

zodKeywordMapper_number(coercion, min, max) ==
  (IF coercion THEN "z.coerce.number()" ELSE "z.number()")
    \o Bound(".min(", min) \o Bound(".max(", max)

zodKeywordMapper_integer(coercion, min, max, version) ==
  (IF coercion THEN "z.coerce.number().int()"
   ELSE IF version = "4" THEN "z.int()" ELSE "z.number().int()")
    \o Bound(".min(", min) \o Bound(".max(", max)

zodKeywordMapper_interface(value, strict) ==
  IF strict THEN "z.strictInterface({\n    " \o value \o "\n    })"
  ELSE "z.interface({\n    " \o value \o "\n    })"

zodKeywordMapper_object(value, strict, version) ==
  IF version = "4" /\ strict THEN "z.strictObject({\n    " \o value \o "\n    })"
  ELSE IF strict THEN "z.object({\n    " \o value \o "\n    }).strict()"
  ELSE "z.object({\n    " \o value \o "\n    })"

zodKeywordMapper_string(coercion, min, max) ==
  (IF coercion THEN "z.coerce.string()" ELSE "z.string()")
    \o Bound(".min(", min) \o Bound(".max(", max)

zodKeywordMapper_array(its, min, max, unique) ==
  "z.array(" \o Join(its, "") \o ")"
    \o Bound(".min(", min) \o Bound(".max(", max)
    \o (IF unique
        THEN ".refine(items => new Set(items).size === items.length, { message: \"Array entries must be unique\" })"
        ELSE "")

zodKeywordMapper_tuple(its) == "z.tuple([" \o Join(its, ", ") \o "])"
zodKeywordMapper_enum(its) == "z.enum([" \o Join(its, ", ") \o "])"
zodKeywordMapper_union(its) == "z.union([" \o Join(its, ", ") \o "])"
zodKeywordMapper_const(value) == "z.literal(" \o OrEmpty(value) \o ")"

zodKeywordMapper_datetime(offset, local, version) ==
  IF offset
  THEN (IF version = "4" THEN "z.iso.datetime({ offset: true })"
        ELSE "z.string().datetime({ offset: true })")
  ELSE IF local
  THEN (IF version = "4" THEN "z.iso.datetime({ local: true })"
        ELSE "z.string().datetime({ local: true })")
  ELSE "z.string().datetime()"

\* type defaults to 'string' when args.type is undefined ("" here).
zodKeywordMapper_date(type, coercion, version) ==
  IF type \in {"", "string"} THEN (IF version = "4" THEN "z.iso.date()" ELSE "z.string().date()")
  ELSE IF coercion THEN "z.coerce.date()"
  ELSE "z.date()"

zodKeywordMapper_time(type, coercion, version) ==
  IF type \in {"", "string"} THEN (IF version = "4" THEN "z.iso.time()" ELSE "z.string().time()")
  ELSE IF coercion THEN "z.coerce.date()"
  ELSE "z.date()"

zodKeywordMapper_uuid(coercion, version) ==
  IF coercion THEN "z.coerce.string().uuid()"
  ELSE IF version = "4" THEN "z.uuid()" ELSE "z.string().uuid()"

zodKeywordMapper_url(coercion, version) ==
  IF coercion THEN "z.coerce.string().url()"
  ELSE IF version = "4" THEN "z.url()" ELSE "z.string().url()"

zodKeywordMapper_email(coercion, version) ==
  IF coercion THEN "z.coerce.string().email()"
  ELSE IF version = "4" THEN "z.email()" ELSE "z.string().email()"

zodKeywordMapper_default(value) ==
  IF value.t = "object" THEN ".default({})" ELSE ".default(" \o OrEmpty(value) \o ")"

zodKeywordMapper_and(its) ==
  Join([i \in 1..Len(its) |-> Str(".and(" \o its[i].s \o ")")], "")

\* The parameter defaults to '' when it is undefined.
zodKeywordMapper_describe(value) == ".describe(" \o OrEmpty(value) \o ")"
zodKeywordMapper_min(value) == ".min(" \o OrEmpty(value) \o ")"
zodKeywordMapper_max(value) == ".max(" \o OrEmpty(value) \o ")"

zodKeywordMapper_matches(value, coercion) ==
  IF coercion THEN "z.coerce.string().regex(" \o OrEmpty(value) \o ")"
  ELSE "z.string().regex(" \o OrEmpty(value) \o ")"

\* Mutant of zodKeywordMapper_ref: the version is ignored.
zodKeywordMapper_ref_alwaysLazy(value, version) ==
  IF ~JsTruthy(value) THEN Undefined ELSE Str("z.lazy(() => " \o value.s \o ")")

zodKeywordMapper_ref(value, version) ==
  IF ~JsTruthy(value) THEN Undefined
  ELSE IF version = "4" THEN Str(value.s)
  ELSE Str("z.lazy(() => " \o value.s \o ")")

zodKeywordMapper_catchall(value) ==
  IF JsTruthy(value) THEN Str(".catchall(" \o value.s \o ")") ELSE Undefined

\* value(arg): the emitter of keyword k called with one argument and every other
\* parameter left out (lines 440, 446 and 450 call it this way).
Call(k, arg) ==
  CASE k = "any" -> Str("z.any()")
    [] k = "unknown" -> Str("z.unknown()")
    [] k = "void" -> Str("z.void()")
    [] k = "boolean" -> Str("z.boolean()")
    [] k = "undefined" -> Str("z.undefined()")
    [] k = "nullable" -> Str(".nullable()")
    [] k = "null" -> Str("z.null()")
    [] k = "nullish" -> Str(".nullish()")
    [] k = "optional" -> Str(".optional()")
    [] k = "blob" -> Str("z.instanceof(File)")
    [] k = "interface" -> Str(zodKeywordMapper_interface(arg.s, FALSE))
    [] k = "catchall" -> zodKeywordMapper_catchall(arg)
    [] k = "matches" -> Str(zodKeywordMapper_matches(arg, FALSE))
    [] k = "default" -> Str(zodKeywordMapper_default(arg))
    [] k = "describe" -> Str(zodKeywordMapper_describe(arg))
    [] OTHER -> [def |-> FALSE, s |-> "TypeError: value is not a function"]

(***************************************************************************)
(* sort()                                                                   *)
(***************************************************************************)
\* Mutant of order: the optional/nullable/nullish block listed before the bounds.
order_modifiersEarly ==
  <<"string", "datetime", "date", "time", "tuple", "number", "object", "enum", "url",
    "email", "firstName", "lastName", "password", "matches", "uuid", "null",
    "optional", "nullable", "nullish", "min", "max", "default", "describe">>

order ==
  <<"string", "datetime", "date", "time", "tuple", "number", "object", "enum", "url",
    "email", "firstName", "lastName", "password", "matches", "uuid", "null", "min",
    "max", "default", "describe", "optional", "nullable", "nullish">>

\* Array.prototype.indexOf: the first position, counted from 0, or -1.
IndexOf(seq, k) ==
  IF \E i \in 1..Len(seq) : seq[i] = k
  THEN (CHOOSE i \in 1..Len(seq) : seq[i] = k /\ \A j \in 1..(i - 1) : seq[j] # k) - 1
  ELSE -1

\* transformers.orderBy(list, [key], ['asc']): ascending by key, equal keys in
\* their input order.  keys[i] is the key of list[i].
orderBy(list, keys) ==
  LET n == Len(list)
      pos(i) == Cardinality({j \in 1..n : keys[j] < keys[i] \/ (keys[j] = keys[i] /\ j < i)}) + 1
  IN [p \in 1..n |-> list[CHOOSE i \in 1..n : pos(i) = p]]

\* Mutant of sort: a keyword absent from the order table is ranked after the table.
sort_absentLast(its) ==
  IF ~its.present THEN <<>>
  ELSE orderBy(its.list,
               [i \in 1..Len(its.list) |->
                  IF IndexOf(order, its.list[i].keyword) = -1
                  THEN Len(order) ELSE IndexOf(order, its.list[i].keyword)])

sort(its) ==
  IF ~its.present THEN <<>>
  ELSE orderBy(its.list, [i \in 1..Len(its.list) |-> IndexOf(order, its.list[i].keyword)])

(***************************************************************************)
(* Helpers parse() imports.                                                 *)
(***************************************************************************)
isKeyword(current, keyword) == current.keyword = keyword

\* transformers.stringify: the value's text in double quotes.
stringify(v) == IF v.t = "undefined" THEN "\"\"" ELSE "\"" \o v.s \o "\""

\* transformers.toRegExpString(text, null): the regular expression literal.
toRegExpString(v) == JsStr("/" \o v.s \o "/")

\* SchemaGenerator.find(schemas, keyword): a node of that keyword among the
\* schemas or among the members of their array, and, tuple and union nodes.
RECURSIVE find(_, _)
find(schemas, keyword) ==
  \E i \in 1..Len(schemas) :
    \/ schemas[i].keyword = keyword
    \/ /\ schemas[i].keyword \in {"array", "and", "tuple", "union"}
       /\ find(schemas[i].list.list, keyword)

shouldCoerce(coercion, type) ==
  IF coercion.kind = "undefined" THEN FALSE
  ELSE IF coercion.kind = "boolean" THEN coercion.all
  ELSE coercion[type]

\* options.mapper?.[key], '' when there is none.
MapperAt(mapper, key) ==
  IF \E m \in mapper : m.key = key THEN (CHOOSE m \in mapper : m.key = key).value ELSE ""

\* options.wrapOutput({ output, schema }) || output
WrapOutput(wrapOutput, out) ==
  IF wrapOutput = "openapi" /\ out # "" THEN out \o ".openapi({})" ELSE out

(***************************************************************************)
(* parse()                                                                  *)
(***************************************************************************)
Tree(parent, name, current, siblings) ==
  [parent |-> parent, name |-> name, current |-> current, siblings |-> siblings]

RECURSIVE parse(_, _)

\* list.map((schema) => parse({ parent, name, current: schema, siblings }, options))
\*     .filter(Boolean)
parseEach(parent, name, list, siblings, opts) ==
  FilterBoolean([i \in 1..Len(list) |-> parse(Tree(parent, name, list[i], siblings), opts)])

\* Mutant of parseUnion: the one-member case is not collapsed.
parseUnion_noCollapse(t, opts) ==
  LET current == t.current IN
  IF current.list.present /\ Len(current.list.list) = 0
  THEN Str("")
  ELSE LET members == sort(current.list)
       IN Str(zodKeywordMapper_union(parseEach(current, t.name, members, members, opts)))

parseUnion(t, opts) ==
  LET current == t.current IN
  IF current.list.present /\ Len(current.list.list) = 1
  THEN parse(Tree(t.parent, t.name, current.list.list[1], t.siblings), opts)
  ELSE IF current.list.present /\ Len(current.list.list) = 0
  THEN Str("")
  ELSE LET members == sort(current.list)
       IN Str(zodKeywordMapper_union(parseEach(current, t.name, members, members, opts)))

\* Mutant of parseAnd: the first member is wrapped in an intersection step too.
parseAnd_wrapFirst(t, opts) ==
  LET current == t.current
      members == SelectSeq(sort(current.list),
                           LAMBDA schema : schema.keyword \notin {"optional", "describe"})
      its == parseEach(current, t.name, members, members, opts)
  IN Str(zodKeywordMapper_and(its))

parseAnd(t, opts) ==
  LET current == t.current
      members == SelectSeq(sort(current.list),
                           LAMBDA schema : schema.keyword \notin {"optional", "describe"})
      its == parseEach(current, t.name, members, members, opts)
  IN Str(Join(slice(its, 0, 1), ",") \o zodKeywordMapper_and(slice(its, 1, Len(its))))

parseArray(t, opts) ==
  LET current == t.current
      members == sort(current.list)
  IN Str(zodKeywordMapper_array(parseEach(current, t.name, members, members, opts),
                                current.min, current.max, "unique" \in current.flags))

\* Mutant of parseEnum: a single literal constant is still wrapped in a union.
parseEnum_noSingle(t, opts) ==
  LET current == t.current
      consts == [i \in 1..Len(current.enumItems) |-> Const(current.enumItems[i])]
  IN IF "asConst" \in current.flags
     THEN Str(zodKeywordMapper_union(parseEach(current, t.name, consts, consts, opts)))
     ELSE Str(zodKeywordMapper_enum(
                [i \in 1..Len(current.enumItems) |-> Str(stringify(current.enumItems[i].value))]))

parseEnum(t, opts) ==
  LET current == t.current
      consts == [i \in 1..Len(current.enumItems) |-> Const(current.enumItems[i])]
  IN IF "asConst" \in current.flags
     THEN IF Len(current.enumItems) = 1
          THEN parse(Tree(current, t.name, consts[1], <<consts[1]>>), opts)
          ELSE Str(zodKeywordMapper_union(parseEach(current, t.name, consts, consts, opts)))
     ELSE Str(zodKeywordMapper_enum(
                [i \in 1..Len(current.enumItems) |-> Str(stringify(current.enumItems[i].value))]))

parseRef(t, opts) == zodKeywordMapper_ref(t.current.value, opts.version)

parseProperty(current, p, opts) ==
  LET schemas == p.schemas.list
      hasName == \E i \in 1..Len(schemas) : schemas[i].keyword = "name"
      nameSchema == schemas[CHOOSE i \in 1..Len(schemas) :
                              /\ schemas[i].keyword = "name"
                              /\ \A j \in 1..(i - 1) : schemas[j].keyword # "name"]
      mappedName == IF hasName /\ JsTruthy(nameSchema.args) THEN nameSchema.args.s ELSE p.name
      ordered == sort(p.schemas)
      baseSchemaOutput ==
        Join(FilterBoolean([i \in 1..Len(ordered) |->
                              parse(Tree(current, p.name, ordered[i], schemas), opts)]), "")
      objectValue == WrapOutput(opts.wrapOutput, baseSchemaOutput)
  IN IF MapperAt(opts.mapper, mappedName) # ""
     THEN Str("\"" \o p.name \o "\": " \o MapperAt(opts.mapper, mappedName))
     ELSE IF opts.version = "4" /\ find(schemas, "ref")
     THEN Str("get " \o p.name \o "(){\n                return " \o objectValue
                \o "\n              }")
     ELSE Str("\"" \o p.name \o "\": " \o objectValue)

parseObject(t, opts) ==
  LET current == t.current
      propertyEntries == SelectSeq(current.properties, LAMBDA p : p.schemas.present)
      properties ==
        Join([i \in 1..Len(propertyEntries) |-> parseProperty(current, propertyEntries[i], opts)],
             ",\n")
      addl == current.additionalProperties
      additionalProperties == Join(parseEach(current, t.name, addl, addl, opts), "")
  IN Str(zodKeywordMapper_object(properties, "strict" \in current.flags, opts.version)
           \o (IF Len(addl) > 0 /\ additionalProperties # ""
               THEN ".catchall(" \o additionalProperties \o ")" ELSE ""))

parseTuple(t, opts) ==
  LET current == t.current
      members == current.list.list
  IN Str(zodKeywordMapper_tuple(parseEach(current, t.name, members, members, opts)))

parseConst(t, opts) ==
  LET current == t.current IN
  IF current.format = "number" /\ current.value.t # "undefined"
  THEN Str(zodKeywordMapper_const(JsNum(NumberText(current.value))))
  ELSE IF current.format = "boolean" /\ current.value.t # "undefined"
  THEN Str(zodKeywordMapper_const(current.value))
  ELSE Str(zodKeywordMapper_const(JsStr(stringify(current.value))))

\* Mutant of parseRest: the optional branch does not look at the siblings.
parseRest_optionalAlways(t, opts) ==
  LET current == t.current IN
  IF current.keyword \in MapperKeys /\ current.hasArgs
  THEN Call(current.keyword, current.args)
  ELSE IF current.keyword \in MapperKeys
  THEN Call(current.keyword, JsUndef)
  ELSE Undefined

\* Lines 437-453: what is left once no keyword branch has returned.
parseRest(t, opts) ==
  LET current == t.current IN
  IF current.keyword \in MapperKeys /\ current.hasArgs
  THEN Call(current.keyword, current.args)
  ELSE IF isKeyword(current, "optional")
  THEN IF \E i \in 1..Len(t.siblings) : isKeyword(t.siblings[i], "default")
       THEN Str("")
       ELSE Call(current.keyword, JsUndef)
  ELSE IF current.keyword \in MapperKeys
  THEN Call(current.keyword, JsUndef)
  ELSE Undefined

parse(t, opts) ==
  LET current == t.current
      strings == shouldCoerce(opts.coercion, "strings")
      numbers == shouldCoerce(opts.coercion, "numbers")
      dates == shouldCoerce(opts.coercion, "dates")
  IN
  IF ~HasEmitter(current.keyword) THEN Undefined
  ELSE IF isKeyword(current, "union") THEN parseUnion(t, opts)
  ELSE IF isKeyword(current, "and") THEN parseAnd(t, opts)
  ELSE IF isKeyword(current, "array") THEN parseArray(t, opts)
  ELSE IF isKeyword(current, "enum") THEN parseEnum(t, opts)
  ELSE IF isKeyword(current, "ref") THEN parseRef(t, opts)
  ELSE IF isKeyword(current, "object") THEN parseObject(t, opts)
  ELSE IF isKeyword(current, "tuple") THEN parseTuple(t, opts)
  ELSE IF isKeyword(current, "const") THEN parseConst(t, opts)
  ELSE IF isKeyword(current, "matches") /\ JsTruthy(current.args)
  THEN Str(zodKeywordMapper_matches(toRegExpString(current.args), strings))
  ELSE IF isKeyword(current, "default") /\ JsTruthy(current.args)
  THEN Str(zodKeywordMapper_default(current.args))
  ELSE IF isKeyword(current, "describe") /\ JsTruthy(current.args)
  THEN Str(zodKeywordMapper_describe(JsStr(stringify(current.args))))
  ELSE IF isKeyword(current, "string") THEN Str(zodKeywordMapper_string(strings, JsUndef, JsUndef))
  ELSE IF isKeyword(current, "uuid") THEN Str(zodKeywordMapper_uuid(strings, opts.version))
  ELSE IF isKeyword(current, "email") THEN Str(zodKeywordMapper_email(strings, opts.version))
  ELSE IF isKeyword(current, "url") THEN Str(zodKeywordMapper_url(strings, opts.version))
  ELSE IF isKeyword(current, "number") THEN Str(zodKeywordMapper_number(numbers, JsUndef, JsUndef))
  ELSE IF isKeyword(current, "integer")
  THEN Str(zodKeywordMapper_integer(numbers, JsUndef, JsUndef, opts.version))
  ELSE IF isKeyword(current, "min") THEN Str(zodKeywordMapper_min(current.args))
  ELSE IF isKeyword(current, "max") THEN Str(zodKeywordMapper_max(current.args))
  ELSE IF isKeyword(current, "datetime")
  THEN Str(zodKeywordMapper_datetime("offset" \in current.flags, "local" \in current.flags,
                                     opts.version))
  ELSE IF isKeyword(current, "date")
  THEN Str(zodKeywordMapper_date(current.format, dates, opts.version))
  ELSE IF isKeyword(current, "time")
  THEN Str(zodKeywordMapper_time(current.format, dates, opts.version))
  ELSE parseRest(t, opts)

(***************************************************************************)
(* Paths.  A string is the sequence of its tokens: "/" separates segments,  *)
(* "." starts an extension, ".." is the parent directory.  A resolved path  *)
(* is absolute: the sequence of its segments.                               *)
(***************************************************************************)
NoString == [defined |-> FALSE, text |-> <<>>]     \* undefined
String(tokens) == [defined |-> TRUE, text |-> tokens]
StringTruthy(v) == v.defined /\ v.text # <<>>

\* process.cwd()
Cwd == <<"/", "work">>

RECURSIVE split(_)
\* String.prototype.split('/')
split(text) ==
  IF \E i \in 1..Len(text) : text[i] = "/"
  THEN LET i == CHOOSE k \in 1..Len(text) : text[k] = "/" /\ \A j \in 1..(k - 1) : text[j] # "/"
       IN <<SubSeq(text, 1, i - 1)>> \o split(SubSeq(text, i + 1, Len(text)))
  ELSE <<text>>

RECURSIVE normalize(_, _)
\* The segments of a path with "", "." dropped and ".." applied.
normalize(segments, acc) ==
  IF segments = <<>> THEN acc
  ELSE LET seg == Head(segments)
       IN normalize(Tail(segments),
                    IF seg = <<>> \/ seg = <<".">> THEN acc
                    ELSE IF seg = <<"..">>
                    THEN (IF acc = <<>> THEN acc ELSE SubSeq(acc, 1, Len(acc) - 1))
                    ELSE Append(acc, seg))

RECURSIVE resolveFrom(_, _)
\* The segments of the arguments from the last absolute one on, after base.
resolveFrom(args, base) ==
  IF args = <<>> THEN base
  ELSE LET arg == Head(args)
       IN resolveFrom(Tail(args),
                      IF arg # <<>> /\ arg[1] = "/" THEN split(arg) ELSE base \o split(arg))

\* path.resolve(...args)
resolve(args) == normalize(resolveFrom(args, split(Cwd)), <<>>)

RECURSIVE toString(_)
\* A resolved path as a string again.
toString(segments) ==
  IF segments = <<>> THEN <<>> ELSE <<"/">> \o Head(segments) \o toString(Tail(segments))

\* path.extname(path) is not empty: the last segment has a "." after its start.
hasExtname(text) ==
  LET segments == split(text)
      base == segments[Len(segments)]
  IN \E i \in 2..Len(base) : base[i] = "."

\* FileManager.getMode(path)
getMode(text) == IF text = <<>> THEN "split" ELSE IF hasExtname(text) THEN "single" ELSE "split"

\* The first letter of a word in upper case.
capitalize(word) ==
  CASE word = "pet" -> "Pet"
    [] word = "store" -> "Store"
    [] word = "undefined" -> "Undefined"
    [] word = "pets" -> "Pets"
    [] OTHER -> word

\* transformers.pascalCase(text): the words of the text, each capitalized, joined.
pascalCase(text) ==
  LET words == SelectSeq(text, LAMBDA tok : tok \notin {"/", ".", "..", " "})
  IN [i \in 1..Len(words) |-> capitalize(words[i])]

\* transformers.camelCase(text): as pascalCase, the first word left in lower case.
camelCase(text) ==
  LET words == SelectSeq(text, LAMBDA tok : tok \notin {"/", ".", "..", " "})
  IN [i \in 1..Len(words) |-> IF i = 1 THEN words[i] ELSE capitalize(words[i])]

\* `${v}`
template(v) == IF v.defined THEN v.text ELSE <<"undefined">>

(***************************************************************************)
(* pluginAngular: resolvePath()                                             *)
(***************************************************************************)
Thrown == [error |-> "TypeError", path |-> <<>>]
Returned(segments) == [error |-> "", path |-> segments]

\* const mode = pathMode ?? FileManager.getMode(path.resolve(root, output.path))
pathModeOf(p, c) ==
  LET root == toString(resolve(<<p.root, p.outputRoot>>))
  IN IF c.pathMode # "" THEN c.pathMode ELSE getMode(toString(resolve(<<root, p.output>>)))

\* groupName({ group }): group.name when the plugin was given one (here the
\* documented ({ group }) => `${group}Controller`), or the default.
groupName(group, key) ==
  IF group.name = "custom" THEN Returned(template(key) \o <<"Controller">>)
  ELSE IF group.type = "path"
  THEN IF ~key.defined THEN Thrown
       ELSE LET parts == split(key.text)
            IN Returned(IF Len(parts) >= 2 THEN parts[2] ELSE <<"undefined">>)
  ELSE IF group.type = "tag" THEN Returned(pascalCase(template(key) \o <<"Service">>))
  ELSE IF ~key.defined THEN Thrown
  ELSE Returned(camelCase(key.text))

\* Mutant of resolvePath: the single-mode return is skipped when the call
\* carries a group.
resolvePath_groupBeforeSingle(p, c) ==
  LET root == toString(resolve(<<p.root, p.outputRoot>>))
      grouped == p.group.present /\ (StringTruthy(c.group.path) \/ StringTruthy(c.group.tag))
      name == groupName(p.group, IF p.group.type = "path" THEN c.group.path ELSE c.group.tag)
  IN IF grouped
     THEN (IF name.error # "" THEN name
           ELSE Returned(resolve(<<root, p.output, name.path, c.baseName>>)))
     ELSE IF pathModeOf(p, c) = "single" THEN Returned(resolve(<<root, p.output>>))
     ELSE Returned(resolve(<<root, p.output, c.baseName>>))

\* Mutant of resolvePath: the group directory is named after the other key.
resolvePath_otherKey(p, c) ==
  LET root == toString(resolve(<<p.root, p.outputRoot>>))
      grouped == p.group.present /\ (StringTruthy(c.group.path) \/ StringTruthy(c.group.tag))
      name == groupName(p.group, IF p.group.type = "path" THEN c.group.tag ELSE c.group.path)
  IN IF pathModeOf(p, c) = "single" THEN Returned(resolve(<<root, p.output>>))
     ELSE IF grouped
     THEN (IF name.error # "" THEN name
           ELSE Returned(resolve(<<root, p.output, name.path, c.baseName>>)))
     ELSE Returned(resolve(<<root, p.output, c.baseName>>))

resolvePath(p, c) ==
  LET root == toString(resolve(<<p.root, p.outputRoot>>))
      grouped == p.group.present /\ (StringTruthy(c.group.path) \/ StringTruthy(c.group.tag))
      name == groupName(p.group, IF p.group.type = "path" THEN c.group.path ELSE c.group.tag)
  IN IF pathModeOf(p, c) = "single" THEN Returned(resolve(<<root, p.output>>))
     ELSE IF grouped
     THEN (IF name.error # "" THEN name
           ELSE Returned(resolve(<<root, p.output, name.path, c.baseName>>)))
     ELSE Returned(resolve(<<root, p.output, c.baseName>>))

(***************************************************************************)
(* The build: the orchestrator runs every plugin's lifecycle (setup, build, *)
(* completion) in the order its pre-dependencies allow; pluginAngular's     *)
(* build step is buildStart().                                              *)
(***************************************************************************)
pluginOasName == "plugin-oas"
pluginTsName == "plugin-ts"
pluginAngularName == "plugin-angular"
PluginNames == {pluginOasName, pluginTsName, pluginAngularName}

\* Mutant of pluginAngular_pre: plugin-ts is not declared.
pluginAngular_pre_oasOnly == {pluginOasName}

\* Mutant of pluginAngular_pre: no pre-dependency is declared.
pluginAngular_pre_none == {}

\* pre: [pluginOasName, pluginTsName].filter(Boolean)
pluginAngular_pre == {pluginOasName, pluginTsName}

\* The plugins of the configuration.
Active(list) == {list[i] : i \in 1..Len(list)}

\* A declared pre-dependency names a plugin that is not in the active set.
missingDependency(list, deps) == \E p \in Active(list) : \E d \in deps[p] : d \notin Active(list)

\* PluginManager.getDependedPlugins(this.plugins, [pluginOasName]): the plugin
\* is found, or the call throws.
getDependedPlugins(list, name) == name \in Active(list)

\* The file the operation generator builds for one operation.
File(op) == [plugin |-> pluginAngularName, operation |-> op]

\* Mutant of buildStart_awaitBuild: a failed build is caught and what the
\* generator had built is still added.
buildStart_awaitBuild_addPartial(outcome, registered) ==
  IF outcome.rejected
  THEN [step |-> "returned", files |-> outcome.files, fileSet |-> registered \cup outcome.files]
  ELSE [step |-> "addFile", files |-> outcome.files, fileSet |-> registered]

\* const files = await oasGenerator.build(): a rejection leaves buildStart at
\* once, before addFile; otherwise files holds what the generator returned.
buildStart_awaitBuild(outcome, registered) ==
  IF outcome.rejected
  THEN [step |-> "rejected", files |-> {}, fileSet |-> registered]
  ELSE [step |-> "addFile", files |-> outcome.files, fileSet |-> registered]

\* await this.addFile(...files)
addFile(registered, fs) == registered \cup fs

(***************************************************************************)
(* The states in which a part of the program has not run.                   *)
(***************************************************************************)
\* The parent of a top-level schema is undefined.
NoParent == Node("")

NoCoercion == [kind |-> "undefined", all |-> FALSE, dates |-> FALSE, strings |-> FALSE, numbers |-> FALSE]

NoGroup == [present |-> FALSE, type |-> "", name |-> ""]

IdleTree == Tree(NoParent, "", Node(""), <<>>)
IdleOptions == [version |-> "3", coercion |-> NoCoercion, mapper |-> {}, wrapOutput |-> "none"]
IdlePlugin == [root |-> <<".">>, outputRoot |-> <<>>, output |-> <<>>, group |-> NoGroup]
IdleCall == [baseName |-> <<>>, pathMode |-> "", group |-> [tag |-> NoString, path |-> NoString]]

ParserIdle ==
  /\ items = Missing
  /\ sorted = <<>>
  /\ tree = IdleTree
  /\ options = IdleOptions
  /\ output = Undefined

PathIdle ==
  /\ plugin = IdlePlugin
  /\ call = IdleCall
  /\ resolved = Returned(<<>>)

BuildIdle ==
  /\ listed = <<>>
  /\ pre = [p \in PluginNames |-> {}]
  /\ run = "idle"
  /\ phase = [p \in PluginNames |-> "absent"]
  /\ step = "idle"
  /\ generator = [state |-> "idle", files |-> {}]
  /\ files = {}
  /\ fileSet = {}

(***************************************************************************)
(* Inputs of the parser runs.                                               *)
(***************************************************************************)
MaxSiblings == 3   \* longest sibling list handed to sort()
MaxMembers == 3    \* longest member list of a union, and, array, tuple, enum or property

RECURSIVE SeqsUpTo(_, _)
SeqsUpTo(S, n) ==
  IF n = 0 THEN {<<>>}
  ELSE LET shorter == SeqsUpTo(S, n - 1)
       IN shorter \cup {Append(l, x) : l \in {m \in shorter : Len(m) = n - 1}, x \in S}

DefaultNode == WithArgs("default", JsStr("\"x\""))

\* Sibling modifiers as the schema generator emits them.
SiblingNodes ==
  {Node("string"), Node("integer"), Node("readOnly"),
   WithArgs("min", JsNum("1")), WithArgs("min", JsNum("2")), WithArgs("max", JsNum("3")),
   DefaultNode, WithArgs("describe", JsStr("text")),
   Node("optional"), Node("nullable")}

SortInputs == {Missing} \cup {Some(l) : l \in SeqsUpTo(SiblingNodes, MaxSiblings)}

\* Schemas A and B refer to each other by name.
SchemaA == Object(<<Prop("b", Some(<<Ref(JsStr("B"))>>))>>, <<>>, FALSE)
SchemaB == Object(<<Prop("a", Some(<<Ref(JsStr("A")), Node("optional")>>))>>, <<>>, FALSE)

MemberNodes ==
  {Node("string"), Node("integer"), Node("readOnly"), Node("optional"), Ref(JsStr("A"))}

PropertyNodes ==
  {Node("string"), Node("optional"), DefaultNode, WithArgs("name", JsStr("bar")),
   Node("deprecated")}

EnumItems ==
  {[value |-> JsStr("a"), format |-> "string"], [value |-> JsStr("b"), format |-> "string"],
   [value |-> JsNum("1"), format |-> "number"], [value |-> JsBool(TRUE), format |-> "boolean"]}

MemberLists == SeqsUpTo(MemberNodes, MaxMembers)

NestedNodes ==
  {SchemaA, SchemaB,
   WithList("union", <<WithList("union", <<Node("optional")>>)>>),
   WithList("union", <<WithList("union", <<>>), Node("string")>>),
   WithList("and", <<WithList("union", <<Node("string"), Node("integer")>>), SchemaA>>),
   WithList("and", <<WithArgs("describe", JsStr("text")), Node("string")>>),
   Object(<<Prop("count", Some(<<Node("optional"), WithArgs("default", JsNum("0")),
                                  Node("integer"), Node("nullable")>>))>>, <<>>, FALSE),
   Object(<<Prop("tag", Some(<<Node("default"), Node("optional"), Node("string")>>)),
            Prop("note", Some(<<Node("optional"), Node("string"), Node("nullish")>>))>>,
          <<>>, FALSE),
   Node("default"), WithArgs("default", JsNum("0")),
   WithList("and", <<Node("optional"), WithArgs("describe", JsStr("text"))>>),
   WithList("tuple", <<WithList("array", <<Node("name")>>), Node("example")>>),
   Object(<<Prop("id", Some(<<Node("integer")>>)), Prop("skipped", Missing),
            Prop("tag", Some(<<Node("optional"), Node("string")>>))>>,
          <<Node("string"), Node("writeOnly")>>, TRUE),
   WithList("union", <<Node("unknownKeyword"), Node("string")>>),
   WithList("array", <<WithArgs("min", JsNum("1")), Node("unknownKeyword"), Node("string")>>),
   Node("unknownKeyword"), DateLike("date", "string"), DateLike("time", "date"),
   DateTime({"offset"}), Node("null"), Node("nullish"), Node("boolean"), Node("number"),
   Node("uuid"), Node("email"), Node("url"), WithArgs("matches", JsStr("^a$")),
   WithArgs("catchall", JsStr("z.any()")), Node("describe"), Node("name"),
   Ref(JsStr("A")), Ref(JsStr("B")), Ref(JsUndef), Ref(JsStr("")), Node("union")}

CurrentNodes ==
  SiblingNodes \cup NestedNodes
    \cup {WithList(k, l) : k \in {"union", "and", "tuple"}, l \in MemberLists}
    \cup {ArrayOf(l, JsUndef, JsUndef, FALSE) : l \in MemberLists}
    \cup {ArrayOf(<<Node("string")>>, JsNum("1"), JsNum("2"), TRUE)}
    \cup {Object(<<Prop("tag", Some(l))>>, <<>>, FALSE) : l \in SeqsUpTo(PropertyNodes, MaxMembers)}
    \cup {Enum(c, l) : c \in BOOLEAN, l \in SeqsUpTo(EnumItems, MaxMembers)}

SchemaTrees ==
  UNION {{Tree(NoParent, "pet", c, <<c>>), Tree(NoParent, "pet", c, <<c, DefaultNode>>)} :
           c \in CurrentNodes}

ParserOptions ==
  {[version |-> v, coercion |-> NoCoercion, mapper |-> {}, wrapOutput |-> "none"] : v \in {"3", "4"}}
    \cup {[version |-> "3", coercion |-> [NoCoercion EXCEPT !.kind = "boolean", !.all = TRUE],
           mapper |-> {[key |-> "bar", value |-> "z.custom()"]}, wrapOutput |-> "none"],
          [version |-> "4", coercion |-> [NoCoercion EXCEPT !.kind = "object", !.dates = TRUE],
           mapper |-> {}, wrapOutput |-> "openapi"]}

(***************************************************************************)
(* The parser runs: one call of sort() or of parse() on a drawn input.      *)
(***************************************************************************)
ParseInit ==
  /\ PathIdle
  /\ BuildIdle
  /\ sorted = <<>>
  /\ output = Undefined
  /\ \/ /\ pc = "sort"
        /\ items \in SortInputs
        /\ tree = IdleTree
        /\ options = IdleOptions
     \/ /\ pc = "parse"
        /\ items = Missing
        /\ tree \in SchemaTrees
        /\ options \in ParserOptions

Sort ==
  /\ pc = "sort"
  /\ sorted' = sort(items)
  /\ pc' = "sorted"
  /\ UNCHANGED <<items, tree, options, output, pathVars, buildVars>>

Parse ==
  /\ pc = "parse"
  /\ output' = parse(tree, options)
  /\ pc' = "parsed"
  /\ UNCHANGED <<items, sorted, tree, options, pathVars, buildVars>>

ParseNext == Sort \/ Parse

ParseSpec == ParseInit /\ [][ParseNext]_vars

(***************************************************************************)
(* Inputs of the path runs.                                                 *)
(***************************************************************************)
PluginConfigs ==
  {[root |-> r, outputRoot |-> <<".", "/", "src", "/", "gen">>, output |-> o, group |-> g] :
     r \in {<<".">>, <<"/", "repo">>},
     o \in {<<"services">>, <<"services", ".", "ts">>},
     g \in {NoGroup} \cup {[present |-> TRUE, type |-> t, name |-> n] :
                             t \in {"path", "tag"}, n \in {"default", "custom"}}}

OperationPaths ==
  {<<"/", "pets">>, <<"/", "pets", "/", "{petId}">>, <<"/", "store", "/", "order">>, <<"/">>}

OperationTags == {NoString, String(<<"pet">>), String(<<"store">>)}

\* options: none, or the group of an operation (its first tag, if any, and its path).
CallOptions ==
  {[tag |-> NoString, path |-> NoString]}
    \cup {[tag |-> t, path |-> String(op)] : t \in OperationTags, op \in OperationPaths}

Calls ==
  {[baseName |-> b, pathMode |-> m, group |-> g] :
     b \in {<<"petService", ".", "ts">>, <<"storeService", ".", "ts">>},
     m \in {"", "single", "split"},
     g \in CallOptions}

PathInit ==
  /\ pc = "resolve"
  /\ plugin \in PluginConfigs
  /\ call \in Calls
  /\ resolved = Returned(<<>>)
  /\ ParserIdle
  /\ BuildIdle

ResolvePath ==
  /\ pc = "resolve"
  /\ resolved' = resolvePath(plugin, call)
  /\ pc' = "resolved"
  /\ UNCHANGED <<plugin, call, parserVars, buildVars>>

PathNext == ResolvePath

PathSpec == PathInit /\ [][PathNext]_vars

(***************************************************************************)
(* The build run.                                                           *)
(***************************************************************************)
MaxOperations == 2   \* operations of the API document

Operations == 1..MaxOperations
AllFiles == {File(op) : op \in Operations}

\* Every listing order of every subset of the plugins.
Listings == {l \in SeqsUpTo(PluginNames, Cardinality(PluginNames)) :
               \A i, j \in 1..Len(l) : i # j => l[i] # l[j]}

\* plugin-oas declares no pre-dependency; plugin-ts may declare plugin-oas.
Declarations ==
  {[p \in PluginNames |->
      IF p = pluginAngularName THEN pluginAngular_pre
      ELSE IF p = pluginTsName THEN tsPre
      ELSE {}] : tsPre \in {{}, {pluginOasName}}}

Init ==
  /\ pc = "build"
  /\ listed \in Listings
  /\ pre \in Declarations
  /\ run = "validating"
  /\ phase = [p \in PluginNames |-> IF p \in Active(listed) THEN "pending" ELSE "absent"]
  /\ step = "idle"
  /\ generator = [state |-> "idle", files |-> {}]
  /\ files = {}
  /\ fileSet = {}
  /\ ParserIdle
  /\ PathIdle

\* The orchestrator checks the declared pre-dependencies before it runs anything.
Validate ==
  /\ run = "validating"
  /\ run' = IF missingDependency(listed, pre) THEN "configError" ELSE "running"
  /\ UNCHANGED <<pc, parserVars, pathVars, listed, pre, phase, step, generator, files, fileSet>>

\* A plugin's lifecycle starts once every plugin it declares in pre has completed.
Setup(p) ==
  /\ run = "running"
  /\ phase[p] = "pending"
  /\ \A d \in pre[p] : phase[d] = "completed"
  /\ phase' = [phase EXCEPT ![p] = "setup"]
  /\ UNCHANGED <<pc, parserVars, pathVars, listed, pre, run, step, generator, files, fileSet>>

\* The build step of plugin-oas or plugin-ts starts, completes or fails.
BuildOther(p) ==
  /\ run = "running"
  /\ p # pluginAngularName
  /\ phase[p] = "setup"
  /\ phase' = [phase EXCEPT ![p] = "build"]
  /\ UNCHANGED <<pc, parserVars, pathVars, listed, pre, run, step, generator, files, fileSet>>

CompleteOther(p) ==
  /\ run = "running"
  /\ p # pluginAngularName
  /\ phase[p] = "build"
  /\ phase' = [phase EXCEPT ![p] = "completed"]
  /\ fileSet' = fileSet \cup {[plugin |-> p, operation |-> 0]}
  /\ UNCHANGED <<pc, parserVars, pathVars, listed, pre, run, step, generator, files>>

FailOther(p) ==
  /\ run = "running"
  /\ p # pluginAngularName
  /\ phase[p] = "build"
  /\ phase' = [phase EXCEPT ![p] = "failed"]
  /\ run' = "failed"
  /\ UNCHANGED <<pc, parserVars, pathVars, listed, pre, step, generator, files, fileSet>>

\* buildStart() is called: getDependedPlugins() finds plugin-oas or throws, and
\* the call waits for getOas().
BuildStart ==
  /\ run = "running"
  /\ phase[pluginAngularName] = "setup"
  /\ IF getDependedPlugins(listed, pluginOasName)
     THEN /\ step' = "getOas"
          /\ phase' = [phase EXCEPT ![pluginAngularName] = "build"]
          /\ run' = run
     ELSE /\ step' = "rejected"
          /\ phase' = [phase EXCEPT ![pluginAngularName] = "failed"]
          /\ run' = "failed"
  /\ UNCHANGED <<pc, parserVars, pathVars, listed, pre, generator, files, fileSet>>

\* getOas() has resolved: the operation generator is made and build() is awaited.
BuildStartGenerate ==
  /\ run = "running"
  /\ step = "getOas"
  /\ step' = "build"
  /\ generator' = [state |-> "building", files |-> {}]
  /\ UNCHANGED <<pc, parserVars, pathVars, listed, pre, run, phase, files, fileSet>>

\* oasGenerator.build() builds the file of one more operation.
GeneratorBuild(op) ==
  /\ run = "running"
  /\ step = "build"
  /\ generator.state = "building"
  /\ File(op) \notin generator.files
  /\ generator' = [generator EXCEPT !.files = @ \cup {File(op)}]
  /\ UNCHANGED <<pc, parserVars, pathVars, listed, pre, run, phase, step, files, fileSet>>

\* buildStart() resumes after await oasGenerator.build() with the outcome.
Resume(outcome) ==
  LET next == buildStart_awaitBuild(outcome, fileSet)
  IN /\ step' = next.step
     /\ files' = next.files
     /\ fileSet' = next.fileSet
     /\ phase' = [phase EXCEPT ![pluginAngularName] =
                    IF next.step = "rejected" THEN "failed"
                    ELSE IF next.step = "returned" THEN "completed" ELSE @]
     /\ run' = IF next.step = "rejected" THEN "failed" ELSE run

\* build() resolves with the files of every operation.
GeneratorResolve ==
  /\ run = "running"
  /\ step = "build"
  /\ generator.state = "building"
  /\ generator.files = AllFiles
  /\ generator' = [generator EXCEPT !.state = "resolved"]
  /\ Resume([rejected |-> FALSE, files |-> generator.files])
  /\ UNCHANGED <<pc, parserVars, pathVars, listed, pre>>

\* build() rejects, whatever it has built so far.
GeneratorReject ==
  /\ run = "running"
  /\ step = "build"
  /\ generator.state = "building"
  /\ generator' = [generator EXCEPT !.state = "rejected"]
  /\ Resume([rejected |-> TRUE, files |-> generator.files])
  /\ UNCHANGED <<pc, parserVars, pathVars, listed, pre>>

\* await this.addFile(...files), and buildStart() returns.
BuildStartAddFile ==
  /\ run = "running"
  /\ step = "addFile"
  /\ fileSet' = addFile(fileSet, files)
  /\ step' = "returned"
  /\ phase' = [phase EXCEPT ![pluginAngularName] = "completed"]
  /\ UNCHANGED <<pc, parserVars, pathVars, listed, pre, run, generator, files>>

\* Every plugin has completed.
Finish ==
  /\ run = "running"
  /\ \A p \in Active(listed) : phase[p] = "completed"
  /\ run' = "done"
  /\ UNCHANGED <<pc, parserVars, pathVars, listed, pre, phase, step, generator, files, fileSet>>

Next ==
  \/ Validate
  \/ \E p \in PluginNames : Setup(p) \/ BuildOther(p) \/ CompleteOther(p) \/ FailOther(p)
  \/ BuildStart
  \/ BuildStartGenerate
  \/ \E op \in Operations : GeneratorBuild(op)
  \/ GeneratorResolve
  \/ GeneratorReject
  \/ BuildStartAddFile
  \/ Finish

Spec == Init /\ [][Next]_vars

(***************************************************************************)
(* Properties of the parser.                                                *)
(***************************************************************************)
\* The rank class of a keyword in the canonical sibling order.
OrderClass(k) ==
  CASE k \in {"min", "max"} -> 2
    [] k \in {"default", "describe"} -> 3
    [] k \in {"optional", "nullable", "nullish"} -> 4
    [] OTHER -> 1

\* C1: sort() returns the siblings it was given with every primary/format node
\* (and every keyword outside the order table) before every bound constraint,
\* every bound constraint before every default/describe node, and those before
\* every optional/nullable/nullish node, whatever the input order.
C1_CanonicalOrder ==
  (pc = "sorted" /\ items.present) =>
    /\ Len(sorted) = Len(items.list)
    /\ {sorted[i] : i \in 1..Len(sorted)} = {items.list[i] : i \in 1..Len(items.list)}
    /\ \A i, j \in 1..Len(sorted) :
         i < j => OrderClass(sorted[i].keyword) <= OrderClass(sorted[j].keyword)

\* A list given in the reverse of the canonical order has been sorted.
C1_Witness ==
  /\ pc = "sorted"
  /\ items = Some(<<Node("optional"), DefaultNode, WithArgs("max", JsNum("3"))>>)
  /\ sorted = <<WithArgs("max", JsNum("3")), DefaultNode, Node("optional")>>

\* C2: a union of exactly one member parses to what that member parses to with
\* the same parent, name, siblings and options; a union of no member parses to
\* the empty output.
C2_UnionCollapse ==
  (pc = "parsed" /\ tree.current.keyword = "union" /\ tree.current.list.present) =>
    /\ Len(tree.current.list.list) = 1 =>
         output = parse([tree EXCEPT !.current = tree.current.list.list[1]], options)
    /\ Len(tree.current.list.list) = 0 => output = Str("")

\* A one-member union has been parsed to its member's expression.
C2_Witness ==
  /\ pc = "parsed"
  /\ tree.current = WithList("union", <<Node("string")>>)
  /\ output = Str("z.string()")

\* The expression a reference to name n is emitted as.
RefExpression(n, version) == IF version = "4" THEN n ELSE "z.lazy(() => " \o n \o ")"

\* C3: a reference node parses to the referenced name alone (bare in version 4,
\* in a lazy thunk in version 3; nothing when it carries no name), and each of
\* two schemas that refer to each other parses to a result of its own.
C3_ReferenceByName ==
  pc = "parsed" =>
    /\ tree.current.keyword = "ref" =>
         output = IF tree.current.value.t = "string" /\ tree.current.value.s # ""
                  THEN Str(RefExpression(tree.current.value.s, options.version))
                  ELSE Undefined
    /\ (tree.current \in {SchemaA, SchemaB} /\ options.wrapOutput = "none") =>
         LET other == IF tree.current = SchemaA THEN "B" ELSE "A"
             prop == IF tree.current = SchemaA THEN "b" ELSE "a"
             chain == RefExpression(other, options.version)
                        \o (IF tree.current = SchemaB THEN ".optional()" ELSE "")
         IN output =
              Str("z.object({\n    "
                    \o (IF options.version = "4"
                        THEN "get " \o prop \o "(){\n                return " \o chain
                               \o "\n              }"
                        ELSE "\"" \o prop \o "\": " \o chain)
                    \o "\n    })")

\* Schema B, which refers to A, which refers to B, has been parsed in version 4.
C3_Witness ==
  /\ pc = "parsed"
  /\ tree.current = SchemaB
  /\ options.version = "4"
  /\ output.def

RECURSIVE CommaList(_)
\* The texts of a list, separated by ", ".
CommaList(texts) ==
  IF Len(texts) = 0 THEN ""
  ELSE IF Len(texts) = 1 THEN texts[1]
  ELSE texts[1] \o ", " \o CommaList(Tail(texts))

\* The serialized value of an enum member, and the member as a literal constant.
Serialized(item) == "\"" \o item.value.s \o "\""
Constant(item) ==
  "z.literal(" \o (IF item.format \in {"number", "boolean"} THEN item.value.s ELSE Serialized(item))
    \o ")"

\* C9: an enum node parses to an enum over the serialized member values in
\* member order when asConst is off; with asConst on, to the single constant of
\* its one member, or else to a union of one constant per member in member order.
C9_EnumEmission ==
  (pc = "parsed" /\ tree.current.keyword = "enum") =>
    LET members == tree.current.enumItems
        n == Len(members)
    IN IF "asConst" \notin tree.current.flags
       THEN output = Str("z.enum([" \o CommaList([i \in 1..n |-> Serialized(members[i])]) \o "])")
       ELSE IF n = 1
       THEN output = Str(Constant(members[1]))
       ELSE output = Str("z.union([" \o CommaList([i \in 1..n |-> Constant(members[i])]) \o "])")

\* A one-member enum in literal-constants mode has been parsed to its constant.
C9_Witness ==
  /\ pc = "parsed"
  /\ tree.current = Enum(TRUE, <<[value |-> JsNum("1"), format |-> "number"]>>)
  /\ output = Str("z.literal(1)")

\* The keywords parse() has no emitter for.
NoEmitter(k) == k \in UndefinedKeys \/ k \notin MapperKeys

\* A member list without the nodes that have no emitter.
Emitting(l) == SelectSeq(l, LAMBDA schema : ~NoEmitter(schema.keyword))
EmittingButName(l) == SelectSeq(l, LAMBDA schema : ~NoEmitter(schema.keyword) \/ schema.keyword = "name")

\* An object without the no-emitter nodes of its property chains; the name nodes
\* are kept when keepName, since they select the custom mapper entry.
PrunedObject(current, keepName) ==
  [current EXCEPT
     !.properties =
       [i \in 1..Len(@) |->
          IF @[i].schemas.present
          THEN [@[i] EXCEPT !.schemas = Some(IF keepName THEN EmittingButName(@.list)
                                                        ELSE Emitting(@.list))]
          ELSE @[i]],
     !.additionalProperties = Emitting(@)]

AndVisited(current) ==
  SelectSeq(sort(current.list), LAMBDA schema : schema.keyword \notin {"optional", "describe"})

\* The outputs of the resolved members: the visited members that emit text.
AndResolved(t, opts) ==
  LET visited == AndVisited(t.current)
      outs == [i \in 1..Len(visited) |->
                 parse(Tree(t.current, t.name, visited[i], visited), opts)]
      emitted == SelectSeq(outs, LAMBDA r : r.def /\ r.s # "")
  IN [i \in 1..Len(emitted) |-> emitted[i].s]

\* One intersection step per member from position i on.
RECURSIVE AndSteps(_, _)
AndSteps(texts, i) ==
  IF i > Len(texts) THEN "" ELSE ".and(" \o texts[i] \o ")" \o AndSteps(texts, i + 1)

\* C11: parse() of an intersection emits the first resolved member followed
\* by one intersection step per remaining resolved member; with a single
\* resolved member the output is exactly that member's output, with no
\* intersection step; with no resolved member the output is empty.
C11_IntersectionChain ==
  (pc = "parsed" /\ tree.current.keyword = "and") =>
    LET texts == AndResolved(tree, options) IN
    /\ Len(texts) = 0 => output = Str("")
    /\ Len(texts) = 1 => output = Str(texts[1])
    /\ Len(texts) >= 1 => output = Str(texts[1] \o AndSteps(texts, 2))

\* An intersection of three resolved members has been parsed: the first bare,
\* the other two as intersection steps, in canonical order (the reference and
\* the integer are absent from the order table and come first).
C11_Witness ==
  /\ pc = "parsed"
  /\ tree.current = WithList("and", <<Node("string"), Ref(JsStr("A")), Node("integer")>>)
  /\ options.coercion = NoCoercion /\ options.version = "4"
  /\ output = Str("A.and(z.int()).and(z.string())")

\* An intersection of a describe modifier and a string has been parsed: one
\* resolved member, emitted bare.
C11_SingleReached ==
  /\ pc = "parsed"
  /\ tree.current = WithList("and", <<WithArgs("describe", JsStr("text")), Node("string")>>)
  /\ options.coercion = NoCoercion
  /\ output = Str("z.string()")

\* The keywords of the order table.
Listed(k) == \E i \in 1..Len(order) : order[i] = k

\* Two keywords of one rank: the same keyword, or two keywords absent from the
\* order table.
SameRank(k1, k2) == k1 = k2 \/ (~Listed(k1) /\ ~Listed(k2))

\* How many times node x occurs in list l.
Occurrences(l, x) == Cardinality({i \in 1..Len(l) : l[i] = x})

\* C12: sort() returns a permutation of its input, keeps the input order of
\* nodes of the same rank, puts every keyword absent from the order table
\* before every listed keyword, and returns an already sorted list unchanged;
\* sort() of a missing list returns the empty list.
C12_SortPermutationStable ==
  pc = "sorted" =>
    /\ ~items.present => sorted = <<>>
    /\ items.present =>
         /\ Len(sorted) = Len(items.list)
         /\ \A x \in SiblingNodes : Occurrences(sorted, x) = Occurrences(items.list, x)
         /\ \A x \in SiblingNodes :
              SelectSeq(sorted, LAMBDA y : SameRank(y.keyword, x.keyword))
                = SelectSeq(items.list, LAMBDA y : SameRank(y.keyword, x.keyword))
         /\ \A i, j \in 1..Len(sorted) :
              (~Listed(sorted[i].keyword) /\ Listed(sorted[j].keyword)) => i < j
         /\ sort(Some(sorted)) = sorted

\* Two bounds given in the order 2, 1 around a keyword absent from the table
\* have been sorted: the absent keyword leads, the bounds keep their order.
C12_Witness ==
  /\ pc = "sorted"
  /\ items = Some(<<WithArgs("min", JsNum("2")), Node("readOnly"), WithArgs("min", JsNum("1"))>>)
  /\ sorted = <<Node("readOnly"), WithArgs("min", JsNum("2")), WithArgs("min", JsNum("1"))>>

\* sort() has been called without a list.
C12_MissingReached == pc = "sorted" /\ ~items.present /\ sorted = <<>>

\* A default node is in the list.
HasDefault(l) == \E i \in 1..Len(l) : l[i].keyword = "default"

\* An object whose property chains that hold a default node have lost their
\* optional nodes.
WithoutOptional(current) ==
  [current EXCEPT
     !.properties =
       [i \in 1..Len(@) |->
          IF @[i].schemas.present /\ HasDefault(@[i].schemas.list)
          THEN [@[i] EXCEPT !.schemas =
                  Some(SelectSeq(@.list, LAMBDA schema : schema.keyword # "optional"))]
          ELSE @[i]]]

\* C13: parse() of an optional node emits the empty text when a default node
\* is among its siblings and the optional modifier otherwise; a default node
\* always emits its modifier; so an object property chain that holds a default
\* node is emitted as the chain without its optional nodes, and never carries
\* both modifiers.
C13_OptionalYieldsToDefault ==
  pc = "parsed" =>
    /\ (tree.current.keyword = "optional" /\ ~tree.current.hasArgs) =>
         output = IF HasDefault(tree.siblings) THEN Str("") ELSE Str(".optional()")
    /\ tree.current.keyword = "default" =>
         output \in {Str(".default(" \o OrEmpty(tree.current.args) \o ")"), Str(".default({})")}
    /\ tree.current.keyword = "object" =>
         output = parse([tree EXCEPT !.current = WithoutOptional(tree.current)], options)

\* An object property given as optional, default 0, integer, nullable has been
\* parsed: the chain carries the default modifier and no optional modifier.
C13_Witness ==
  /\ pc = "parsed"
  /\ tree.current =
       Object(<<Prop("count", Some(<<Node("optional"), WithArgs("default", JsNum("0")),
                                     Node("integer"), Node("nullable")>>))>>, <<>>, FALSE)
  /\ options.version = "3" /\ options.coercion = NoCoercion /\ options.mapper = {}
  /\ output = Str("z.object({\n    \"count\": z.number().int().default(0).nullable()\n    })")

\* An optional node has been parsed beside a default sibling, and one without.
C13_SuppressedReached ==
  pc = "parsed" /\ tree.current = Node("optional") /\ HasDefault(tree.siblings) /\ output = Str("")

C13_EmittedReached ==
  pc = "parsed" /\ tree.current = Node("optional") /\ ~HasDefault(tree.siblings)
    /\ output = Str(".optional()")

(***************************************************************************)
(* Properties of resolvePath().                                             *)
(***************************************************************************)
\* The output root of the build: config.root joined with config.output.path.
OutputRoot == (IF plugin.root = <<".">> THEN <<<<"work">>>> ELSE <<<<"repo">>>>) \o <<<<"src">>, <<"gen">>>>

\* The directory of a resolved file.
Dirname(segments) == SubSeq(segments, 1, Len(segments) - 1)

\* The key an operation is grouped by: its path under path grouping, its tag
\* under tag grouping.
GroupKey(c) == IF plugin.group.type = "path" THEN c.group.path ELSE c.group.tag

\* C4: in single mode resolvePath() returns the one fixed file, the output root
\* joined with the plugin's output path, for every base name and every group
\* option, also when the plugin has a group and the call a tag or a path.
C4_SingleFile ==
  (pc = "resolved" /\ pathModeOf(plugin, call) = "single") =>
    /\ resolved = Returned(OutputRoot \o <<plugin.output>>)
    /\ \A c \in Calls : pathModeOf(plugin, c) = "single" => resolvePath(plugin, c) = resolved

\* A call with a tag and a path, on a plugin with a group, resolved in single mode.
C4_Witness ==
  /\ pc = "resolved"
  /\ plugin.group.present
  /\ call.pathMode = "single"
  /\ StringTruthy(call.group.tag)
  /\ plugin.output = <<"services">>
  /\ resolved = Returned(<<<<"work">>, <<"src">>, <<"gen">>, <<"services">>>>)

\* C5: with a group configured and a mode other than single, every call whose
\* operation has the same group key resolves to a file of the same directory;
\* under path grouping with the default name that directory is the first
\* segment of the operation path, below the plugin's output directory.
C5_GroupDirectory ==
  (pc = "resolved" /\ plugin.group.present /\ pathModeOf(plugin, call) # "single"
     /\ GroupKey(call).defined) =>
    /\ resolved.error = ""
    /\ \A c \in Calls :
         (pathModeOf(plugin, c) # "single" /\ GroupKey(c) = GroupKey(call)) =>
           Dirname(resolvePath(plugin, c).path) = Dirname(resolved.path)
    /\ (plugin.group.type = "path" /\ plugin.group.name = "default") =>
         LET first == split(call.group.path.text)[2]
         IN Dirname(resolved.path) =
              OutputRoot \o <<plugin.output>> \o (IF first = <<>> THEN <<>> ELSE <<first>>)

\* An operation of path /pets/{petId} resolved under path grouping.
C5_Witness ==
  /\ pc = "resolved"
  /\ plugin.group = [present |-> TRUE, type |-> "path", name |-> "default"]
  /\ call.group.path = String(<<"/", "pets", "/", "{petId}">>)
  /\ call.pathMode = "split"
  /\ resolved = Returned(<<<<"work">>, <<"src">>, <<"gen">>, <<"services">>, <<"pets">>,
                           <<"petService", ".", "ts">>>>)

(***************************************************************************)
(* Properties of the build.                                                 *)
(***************************************************************************)
\* The files of pluginAngular in the file set.
AngularFiles == {f \in fileSet : f.plugin = pluginAngularName}

\* C6: pluginAngular's build step starts only after plugin-oas and plugin-ts
\* have finished their lifecycle, in whatever order the plugins are listed.
C6_BuildAfterPre ==
  (step # "idle" \/ phase[pluginAngularName] \in {"build", "completed", "failed"}) =>
    /\ phase[pluginOasName] = "completed"
    /\ phase[pluginTsName] = "completed"

\* pluginAngular is listed first and its build step has started.
C6_Witness ==
  /\ listed = <<pluginAngularName, pluginTsName, pluginOasName>>
  /\ step = "getOas"

\* C7: when a plugin named in a plugin's pre-dependencies is not in the active
\* set, the run ends in a configuration error and no plugin's setup or build
\* step ever runs.
C7_ConfigErrorFirst ==
  (pc = "build"
     /\ \/ missingDependency(listed, pre)
        \/ pluginAngularName \in Active(listed)
             /\ ~({pluginOasName, pluginTsName} \subseteq Active(listed))) =>
    /\ run \in {"validating", "configError"}
    /\ \A p \in PluginNames : phase[p] \in {"absent", "pending"}
    /\ step = "idle"
    /\ fileSet = {}

\* pluginAngular is listed without plugin-oas and the run has ended in the error.
C7_Witness ==
  /\ run = "configError"
  /\ listed = <<pluginTsName, pluginAngularName>>

\* C8: when the operation generator's build fails, buildStart() has added no
\* file of the plugin to the file set and the failure leaves the build step and
\* fails the run; the plugin's files are never in the file set in part.
C8_NoPartialOutput ==
  /\ generator.state = "rejected" =>
       /\ step = "rejected"
       /\ AngularFiles = {}
       /\ phase[pluginAngularName] = "failed"
       /\ run = "failed"
  /\ AngularFiles \in {{}, AllFiles}

\* The generator has failed after it built the file of one operation, with the
\* output of the plugins before it in the file set.
C8_Witness ==
  /\ generator.state = "rejected"
  /\ generator.files = {File(1)}
  /\ [plugin |-> pluginTsName, operation |-> 0] \in fileSet
=============================================================================
